---- MODULE Spec2Model ----
(***************************************************************************)
(* pgrep: process_file (line scan of one file) and process_path (the       *)
(* recursive walk that feeds the two sinks ff and ef), src/main.rs.        *)
(*                                                                         *)
(* The file system is the environment of the walk.  A directory listing is *)
(* a sequence of items, each the kind of one entry or EntryErr (the        *)
(* iterator of read_dir yields Err for that item).  A path is the sequence *)
(* of listing positions leading from the root to the entry.                *)
(***************************************************************************)
EXTENDS Integers, Sequences, FiniteSets, TLC

VARIABLES
    re,       \* the compiled pattern (a literal), shared by both machines
    root,     \* kind of the path handed to the top-level process_path
    stack,    \* call stack of process_path, innermost call last
    log,      \* the sink invocations so far, in order (ff and ef)
    ret,      \* value returned by the top-level process_path
    dirs,     \* history: every directory opened by read_dir, with its listing
    calls,    \* history: every finished call of process_path with its result
    raised,   \* history: every failure, recorded where a `?` returns it
    drawn,    \* number of directory entries the file system has so far
    bts,      \* process_file: bytes of the file (std::fs::read)
    readOk,   \* process_file: whether std::fs::read succeeds
    lns,      \* process_file: ss.lines()
    i,        \* process_file: enumerate() index of the next line
    res,      \* process_file: the vector res
    out,      \* process_file: "none", "ok" or "err", the value returned
    pcScan    \* process_file: position in the function

vars == <<re, root, stack, log, ret, dirs, calls, raised, drawn,
          bts, readOk, lns, i, res, out, pcScan>>

walkVars == <<root, stack, log, ret, dirs, calls, raised, drawn>>

scanVars == <<bts, readOk, lns, i, res, out, pcScan>>

(***************************************************************************)
(* Bounds.                                                                 *)
(***************************************************************************)
\* total number of directory entries of the file system below the root
MaxEntries == 3

\* number of symbolic links the platform follows in one path resolution
\* before metadata() fails with ELOOP (40 on Linux)
MaxSymlinks == 1

\* longest file content, in bytes, of the scan machine
MaxLen == 4

(***************************************************************************)
(* Bytes, text and the matcher.                                            *)
(***************************************************************************)
\* a byte that occurs in no valid UTF-8 sequence (0xFF)
BadByte == "X"

LF == "\n"

CR == "\r"

Bytes == {"f", "o", LF, CR, BadByte}

Patterns == {<<>>, <<"f">>, <<"f", "o">>}

BytesUpTo(n) == UNION {[1..k -> Bytes] : k \in 0..n}

from_utf8(b) == \A k \in 1..Len(b) : b[k] # BadByte

StripCR(l) == IF Len(l) > 0 /\ l[Len(l)] = CR THEN SubSeq(l, 1, Len(l) - 1) ELSE l

RECURSIVE LinesFrom(_, _)
LinesFrom(s, cur) ==
    IF s = <<>> THEN (IF cur = <<>> THEN <<>> ELSE <<cur>>)
    ELSE IF Head(s) = LF THEN <<StripCR(cur)>> \o LinesFrom(Tail(s), <<>>)
    ELSE LinesFrom(Tail(s), Append(cur, Head(s)))

lines(ss) == LinesFrom(ss, <<>>)

is_match(pat, l) ==
    \E k \in 0..(Len(l) - Len(pat)) : SubSeq(l, k + 1, k + Len(pat)) = pat

Record(n, l) == [line |-> n, tx |-> l]

(***************************************************************************)
(* process_file, main.rs 152-179.                                          *)
(***************************************************************************)
\* a scan that numbers the lines from one
ScanLineOneBased(acc, n, l, pat) ==
    IF is_match(pat, l) THEN Append(acc, Record(n + 1, l)) ELSE acc

\* body of the for loop, lines 165-174
ScanLine(acc, n, l, pat) ==
    IF is_match(pat, l) THEN Append(acc, Record(n, l)) ELSE acc

RECURSIVE ScanFrom(_, _, _, _)
ScanFrom(ls, n, pat, acc) ==
    IF ls = <<>> THEN acc
    ELSE ScanFrom(Tail(ls), n + 1, pat, ScanLine(acc, n, Head(ls), pat))

\* a scan that decodes lossily instead of giving up on invalid bytes
process_file_lossy(b, pat) == ScanFrom(lines(b), 0, pat, <<>>)

\* the Ok value of process_file for bytes b that were read successfully
process_file(b, pat) ==
    IF from_utf8(b) THEN ScanFrom(lines(b), 0, pat, <<>>) ELSE <<>>

(***************************************************************************)
(* Results, sink events and the entry kinds of the file system.            *)
(***************************************************************************)
Ok == [ok |-> TRUE, cause |-> "none", path |-> <<>>]

Err(c, p) == [ok |-> FALSE, cause |-> c, path |-> p]

Pending == [ok |-> TRUE, cause |-> "pending", path |-> <<>>]

EntryErr == "entryerr"

SymKinds == {"symfile", "symdir", "symdangling"}

\* "symdir" is a symbolic link to the directory that contains it
EntryKinds ==
    {"file", "unreadable", "nometa", "dir", "unlistable", "special"} \cup SymKinds

RootKinds == EntryKinds \ {"symdir"}

Items == EntryKinds \cup {EntryErr}

Listings(n) == UNION {[1..k -> Items] : k \in 0..n}

\* the contents a file of the walk may have: valid text and invalid bytes
FileContents ==
    { <<"f", LF, "o", LF, "f", "o", LF>>,
      <<"o", "f", BadByte, LF>> }

\* the patterns of the walk: the first matches lines of the text above, the
\* second matches none of them
WalkPatterns == {<<"f">>, <<"o", "f">>}

\* what a symbolic link resolves to; other kinds are themselves
Target(kind) ==
    CASE kind = "symfile" -> "file"
      [] kind = "symdir" -> "dir"
      [] kind = "symdangling" -> "none"
      [] OTHER -> kind

\* a metadata call that does not follow symbolic links
symlink_metadata(kind, nsym) ==
    IF kind = "nometa" THEN "err"
    ELSE IF kind \in SymKinds THEN "symlink"
    ELSE IF kind \in {"file", "unreadable"} THEN "file"
    ELSE IF kind \in {"dir", "unlistable"} THEN "dir"
    ELSE "other"

\* p.metadata() and md.file_type(), lines 220-223: follows symbolic links;
\* nsym is the number of symbolic links on the path
metadata(kind, nsym) ==
    IF kind = "nometa" \/ Target(kind) = "none" \/ nsym > MaxSymlinks THEN "err"
    ELSE IF Target(kind) \in {"file", "unreadable"} THEN "file"
    ELSE IF Target(kind) \in {"dir", "unlistable"} THEN "dir"
    ELSE "other"

is_file(ft) == ft = "file"

is_dir(ft) == ft = "dir"

\* a sink that is skipped for a file without matches
ff_nonempty(lg, p, c, b, recs) ==
    IF recs = <<>> THEN lg
    ELSE Append(lg, [sink |-> "result", path |-> p, canon |-> c, bts |-> b,
                     recs |-> recs, err |-> Ok, by |-> <<>>])

\* ff(p, dt), line 231
ff(lg, p, c, b, recs) ==
    Append(lg, [sink |-> "result", path |-> p, canon |-> c, bts |-> b,
                recs |-> recs, err |-> Ok, by |-> <<>>])

\* ef(e), line 247; by is the path of the call that invokes it
ef(lg, e, by) ==
    Append(lg, [sink |-> "error", path |-> e.path, canon |-> <<>>, bts |-> <<>>,
                recs |-> <<>>, err |-> e, by |-> by])

Frame(p, c, kind, nsym) ==
    [path |-> p, canon |-> c, kind |-> kind, nsym |-> nsym,
     pc |-> "start", listing |-> <<>>, idx |-> 1]

Top == stack[Len(stack)]

\* a walk that reports the failure of the top-level call to ef as well
PropagateTopToSink(stk, lg, r) ==
    LET n == Len(stk)
        rest == SubSeq(stk, 1, n - 1)
    IN  IF n = 1
        THEN [stack |-> <<>>, log |-> IF r.ok THEN lg ELSE ef(lg, r, <<>>), ret |-> r]
        ELSE [stack |-> [rest EXCEPT ![n - 1].idx = @ + 1],
              log |-> IF r.ok THEN lg ELSE ef(lg, r, rest[n - 1].path),
              ret |-> ret]

\* a walk that applies `?` to the recursive call: the failure of a child
\* ends the parent too
RECURSIVE PropagateQuestionMark(_, _, _)
PropagateQuestionMark(stk, lg, r) ==
    LET n == Len(stk)
        rest == SubSeq(stk, 1, n - 1)
    IN  IF n = 1 THEN [stack |-> <<>>, log |-> lg, ret |-> r]
        ELSE IF r.ok
        THEN [stack |-> [rest EXCEPT ![n - 1].idx = @ + 1], log |-> lg, ret |-> ret]
        ELSE PropagateQuestionMark(rest, lg, r)

\* a walk that drops the failure of a child
PropagateSwallow(stk, lg, r) ==
    LET n == Len(stk)
        rest == SubSeq(stk, 1, n - 1)
    IN  IF n = 1 THEN [stack |-> <<>>, log |-> lg, ret |-> r]
        ELSE [stack |-> [rest EXCEPT ![n - 1].idx = @ + 1], log |-> lg, ret |-> ret]

\* the innermost call returns r: to the caller of the walk (lines 220, 228,
\* 237, 242, 253), or to the loop of its parent directory (lines 246-248),
\* which hands a failure to ef and goes on to the next entry
Propagate(stk, lg, r) ==
    LET n == Len(stk)
        rest == SubSeq(stk, 1, n - 1)
    IN  IF n = 1 THEN [stack |-> <<>>, log |-> lg, ret |-> r]
        ELSE [stack |-> [rest EXCEPT ![n - 1].idx = @ + 1],
              log |-> IF r.ok THEN lg ELSE ef(lg, r, rest[n - 1].path),
              ret |-> ret]

\* an iteration that yields the entries last to first
EntryIndexReversed(f) == Len(f.listing) - f.idx + 1

\* position in the listing of the item the iterator dd yields next, line 240
EntryIndex(f) == f.idx

\* an iterator whose end is detected one item late
AtEndLate(f) == f.idx > Len(f.listing) + 1

\* the iterator dd is exhausted, line 240
AtEnd(f) == f.idx > Len(f.listing)

(***************************************************************************)
(* process_path, main.rs 210-254: one action per outcome of a call.        *)
(***************************************************************************)
Running == stack # <<>>

Done == stack = <<>>

\* the innermost call returns r after the sink invocations lg
Return(r, lg) ==
    LET x == Propagate(stack, lg, r)
    IN  /\ stack' = x.stack
        /\ log' = x.log
        /\ ret' = x.ret
        /\ calls' = calls \cup {[path |-> Top.path, kind |-> Top.kind,
                                 nsym |-> Top.nsym, res |-> r]}

\* line 220: let md = p.metadata()?  fails
MetadataFails ==
    /\ Running /\ Top.pc = "start"
    /\ metadata(Top.kind, Top.nsym) = "err"
    /\ Return(Err("metadata", Top.path), log)
    /\ raised' = raised \cup {Err("metadata", Top.path)}
    /\ UNCHANGED <<re, root, dirs, drawn, scanVars>>

\* lines 226-228: a regular file, process_file(p, re)? fails in std::fs::read
ReadFails ==
    /\ Running /\ Top.pc = "start"
    /\ is_file(metadata(Top.kind, Top.nsym))
    /\ Target(Top.kind) = "unreadable"
    /\ Return(Err("read", Top.path), log)
    /\ raised' = raised \cup {Err("read", Top.path)}
    /\ UNCHANGED <<re, root, dirs, drawn, scanVars>>

\* lines 226-232 and 253: a regular file is read and scanned, ff is called
\* with the result, and the call returns Ok.  The same file read again
\* (through a symbolic link to its directory) has the same bytes.
ScanFile ==
    /\ Running /\ Top.pc = "start"
    /\ is_file(metadata(Top.kind, Top.nsym))
    /\ Target(Top.kind) # "unreadable"
    /\ \E b \in FileContents :
          /\ \A k \in 1..Len(log) :
                (log[k].sink = "result" /\ log[k].canon = Top.canon) => log[k].bts = b
          /\ Return(Ok, ff(log, Top.path, Top.canon, b, process_file(b, re)))
    /\ UNCHANGED <<re, root, dirs, raised, drawn, scanVars>>

\* lines 235-237: a directory, std::fs::read_dir(p)? fails
ReadDirFails ==
    /\ Running /\ Top.pc = "start"
    /\ is_dir(metadata(Top.kind, Top.nsym))
    /\ Target(Top.kind) = "unlistable"
    /\ Return(Err("read_dir", Top.path), log)
    /\ raised' = raised \cup {Err("read_dir", Top.path)}
    /\ UNCHANGED <<re, root, dirs, drawn, scanVars>>

\* lines 235-240: a directory, read_dir succeeds and the loop starts.  A
\* directory opened before (through another path) lists the same items; a
\* new directory lists any items the file system still has room for.
OpenDir ==
    /\ Running /\ Top.pc = "start"
    /\ is_dir(metadata(Top.kind, Top.nsym))
    /\ Target(Top.kind) # "unlistable"
    /\ \E l \in (IF \E d \in dirs : d.canon = Top.canon
                 THEN {d.listing : d \in {e \in dirs : e.canon = Top.canon}}
                 ELSE Listings(MaxEntries - drawn)) :
          /\ drawn' = (IF \E d \in dirs : d.canon = Top.canon
                       THEN drawn ELSE drawn + Len(l))
          /\ stack' = [stack EXCEPT ![Len(stack)].pc = "loop",
                                    ![Len(stack)].listing = l,
                                    ![Len(stack)].idx = 1]
          /\ dirs' = dirs \cup {[path |-> Top.path, canon |-> Top.canon,
                                 nsym |-> Top.nsym, listing |-> l]}
    /\ UNCHANGED <<re, root, log, ret, calls, raised, scanVars>>

\* lines 226, 235 and 253: neither a regular file nor a directory
SkipOther ==
    /\ Running /\ Top.pc = "start"
    /\ metadata(Top.kind, Top.nsym) # "err"
    /\ ~is_file(metadata(Top.kind, Top.nsym))
    /\ ~is_dir(metadata(Top.kind, Top.nsym))
    /\ Return(Ok, log)
    /\ UNCHANGED <<re, root, dirs, raised, drawn, scanVars>>

\* lines 240-246: the iterator yields an entry, process_path(entry.path())
NextEntry ==
    /\ Running /\ Top.pc = "loop"
    /\ EntryIndex(Top) \in DOMAIN Top.listing
    /\ LET n == EntryIndex(Top)
           k == Top.listing[n]
       IN  /\ k # EntryErr
           /\ stack' = Append(stack,
                 Frame(Append(Top.path, n),
                       IF k = "symdir" THEN Top.canon ELSE Append(Top.canon, n),
                       k,
                       Top.nsym + (IF k \in SymKinds THEN 1 ELSE 0)))
    /\ UNCHANGED <<re, root, log, ret, dirs, calls, raised, drawn, scanVars>>

\* line 242: the iterator yields Err, let entry = d?  returns it
EntryFails ==
    /\ Running /\ Top.pc = "loop"
    /\ EntryIndex(Top) \in DOMAIN Top.listing
    /\ Top.listing[EntryIndex(Top)] = EntryErr
    /\ Return(Err("entry", Top.path), log)
    /\ raised' = raised \cup {Err("entry", Top.path)}
    /\ UNCHANGED <<re, root, dirs, drawn, scanVars>>

\* lines 240 and 253: the iterator is exhausted, the call returns Ok
EndOfDir ==
    /\ Running /\ Top.pc = "loop"
    /\ AtEnd(Top)
    /\ Return(Ok, log)
    /\ UNCHANGED <<re, root, dirs, raised, drawn, scanVars>>

ScanIdle ==
    /\ bts = <<>> /\ readOk = TRUE /\ lns = <<>> /\ i = 0
    /\ res = <<>> /\ out = "none" /\ pcScan = "idle"

\* run(), lines 281-308: the pattern is compiled and process_path is called
Init ==
    /\ re \in WalkPatterns
    /\ root \in RootKinds
    /\ stack = <<Frame(<<>>, <<>>, root, IF root \in SymKinds THEN 1 ELSE 0)>>
    /\ log = <<>>
    /\ ret = Pending
    /\ dirs = {}
    /\ calls = {}
    /\ raised = {}
    /\ drawn = 0
    /\ ScanIdle

Next ==
    \/ MetadataFails
    \/ ReadFails
    \/ ScanFile
    \/ ReadDirFails
    \/ OpenDir
    \/ SkipOther
    \/ NextEntry
    \/ EntryFails
    \/ EndOfDir

Spec == Init /\ [][Next]_vars

\* the walk is one sequential computation: it takes its next step whenever
\* it has one
SpecFair == Spec /\ WF_vars(Next)

(***************************************************************************)
(* process_file as a machine of its own, one action per step.              *)
(***************************************************************************)
WalkIdle ==
    /\ root = "special" /\ stack = <<>> /\ log = <<>> /\ ret = Pending
    /\ dirs = {} /\ calls = {} /\ raised = {} /\ drawn = 0

InitScan ==
    /\ re \in Patterns
    /\ bts \in BytesUpTo(MaxLen)
    /\ readOk \in BOOLEAN
    /\ lns = <<>>
    /\ i = 0
    /\ res = <<>>
    /\ out = "none"
    /\ pcScan = "read"
    /\ WalkIdle

\* line 158: std::fs::read(p)? fails
ScanReadFails ==
    /\ pcScan = "read" /\ ~readOk
    /\ out' = "err" /\ pcScan' = "done"
    /\ UNCHANGED <<re, bts, readOk, lns, i, res, walkVars>>

\* lines 158-165: the bytes are read and decoded; invalid bytes skip the loop
ScanDecode ==
    /\ pcScan = "read" /\ readOk
    /\ IF from_utf8(bts)
       THEN lns' = lines(bts) /\ pcScan' = "loop"
       ELSE lns' = lns /\ pcScan' = "return"
    /\ UNCHANGED <<re, bts, readOk, i, res, out, walkVars>>

\* lines 165-174: one iteration of the loop
ScanStep ==
    /\ pcScan = "loop" /\ i < Len(lns)
    /\ res' = ScanLine(res, i, lns[i + 1], re)
    /\ i' = i + 1
    /\ UNCHANGED <<re, bts, readOk, lns, out, pcScan, walkVars>>

\* line 178: Ok(res)
ScanReturn ==
    /\ \/ pcScan = "loop" /\ i >= Len(lns)
       \/ pcScan = "return"
    /\ out' = "ok" /\ pcScan' = "done"
    /\ UNCHANGED <<re, bts, readOk, lns, i, res, walkVars>>

NextScan ==
    \/ ScanReadFails
    \/ ScanDecode
    \/ ScanStep
    \/ ScanReturn

SpecScan == InitScan /\ [][NextScan]_vars

(***************************************************************************)
(* Vocabulary of the properties.                                           *)
(***************************************************************************)
Parent(p) == SubSeq(p, 1, Len(p) - 1)

ResultsAt(p) == {k \in 1..Len(log) : log[k].sink = "result" /\ log[k].path = p}

ErrorEvents == {k \in 1..Len(log) : log[k].sink = "error"}

ReportsOf(e) == {k \in ErrorEvents : log[k].err = e}

\* p is q or lies below q
Under(p, q) == Len(p) >= Len(q) /\ SubSeq(p, 1, Len(q)) = q

EventsUnder(q) == {k \in 1..Len(log) : Under(log[k].path, q)}

\* the number of symbolic links on the path of entry j of directory d
NsymOf(d, j) == d.nsym + (IF d.listing[j] \in SymKinds THEN 1 ELSE 0)

\* entry j of directory d is a regular file whose metadata and read succeed
ReadableFile(d, j) ==
    /\ d.listing[j] # EntryErr
    /\ metadata(d.listing[j], NsymOf(d, j)) = "file"
    /\ Target(d.listing[j]) # "unreadable"

\* no item before position j of listing l failed to be obtained
NoEntryErrBefore(l, j) == \A m \in 1..(j - 1) : l[m] # EntryErr

\* recs is the sequence of (n, line n) over the lines ls that pat matches
IsScanOf(recs, ls, pat) ==
    /\ \A k \in 1..Len(recs) :
          /\ recs[k].line \in 0..(Len(ls) - 1)
          /\ recs[k].tx = ls[recs[k].line + 1]
          /\ is_match(pat, recs[k].tx)
    /\ \A k \in 1..(Len(recs) - 1) : recs[k].line < recs[k + 1].line
    /\ \A n \in 0..(Len(ls) - 1) :
          is_match(pat, ls[n + 1]) => \E k \in 1..Len(recs) : recs[k].line = n

\* the kinds of entry whose own call of process_path fails
FailingKinds == {"nometa", "unreadable", "unlistable", "symdangling"}

\* listing l holds readable regular files and exactly one failing entry, at j
OneFailingAt(l, j) ==
    /\ j \in DOMAIN l
    /\ l[j] \in FailingKinds
    /\ \A m \in DOMAIN l \ {j} : l[m] = "file"

RootNsym == IF root \in SymKinds THEN 1 ELSE 0

(***************************************************************************)
(* C1.  Failure isolation.                                                 *)
(***************************************************************************)
\* C1: when the walk of a directory that lists readable regular files and
\* one failing entry has ended, ff was called once for each of the files, ef
\* was called exactly once, for the failing entry, wherever it is listed,
\* and the walk returned Ok.
FailureIsolation ==
    \A d \in dirs : \A j \in DOMAIN d.listing :
        (Done /\ d.path = <<>> /\ OneFailingAt(d.listing, j)) =>
            /\ \A m \in DOMAIN d.listing \ {j} : Cardinality(ResultsAt(<<m>>)) = 1
            /\ Cardinality(ErrorEvents) = 1
            /\ \A k \in ErrorEvents : log[k].path = <<j>>
            /\ ret = Ok

\* the failing entry is listed first and two readable files follow it
FailureIsolationReached ==
    /\ Done
    /\ \E d \in dirs :
          /\ d.path = <<>> /\ Len(d.listing) = 3 /\ OneFailingAt(d.listing, 1)
          /\ ResultsAt(<<2>>) # {} /\ ResultsAt(<<3>>) # {}

(***************************************************************************)
(* C2.  Which failures a call returns.                                     *)
(***************************************************************************)
\* C2 as stated: a call returns a failure only for the metadata of its own
\* path or the read of its own regular file; a directory whose listing
\* fails, or which yields a failing item, still returns Ok.
OnlyMetadataAndReadAreFatal ==
    \A c \in calls :
        ~c.res.ok => c.res.path = c.path /\ c.res.cause \in {"metadata", "read"}

\* C2 amended: a call returns a failure exactly when the failure arose in
\* that call (metadata, read, read_dir, or an item of its own listing); the
\* failure of a child is handed to ef by the parent, the entries after the
\* child are still visited, and the parent's own result is not changed by it.
OwnFailuresAreFatal ==
    /\ \A c \in calls :
          ~c.res.ok =>
              /\ c.res.path = c.path
              /\ c.res.cause \in {"metadata", "read", "read_dir", "entry"}
              /\ c.res \in raised
    /\ \A r \in raised : Done => \E c \in calls : c.path = r.path /\ c.res = r
    /\ \A c \in calls :
          (~c.res.ok /\ c.path # <<>>) =>
              \E k \in ReportsOf(c.res) : log[k].by = Parent(c.path)
    /\ \A d \in dirs : \A c \in calls :
          c.path = d.path =>
              /\ c.res.ok <=> (\A j \in DOMAIN d.listing : d.listing[j] # EntryErr)
              /\ \A j \in DOMAIN d.listing :
                    (d.listing[j] # EntryErr /\ NoEntryErrBefore(d.listing, j)) =>
                        \E e \in calls : e.path = Append(d.path, j)

\* the root returned Ok although its first entry, a directory, returned the
\* failure of an item of its listing; ef got that failure and the entry
\* after it was visited
OwnFailuresAreFatalReached ==
    /\ Done
    /\ ret = Ok
    /\ \E c \in calls : c.path = <<1>> /\ c.res = Err("entry", <<1>>)
    /\ ReportsOf(Err("entry", <<1>>)) # {}
    /\ \E c \in calls : c.path = <<2>>

(***************************************************************************)
(* C3.  ff is called once for every readable regular file.                 *)
(***************************************************************************)
\* the call of ff at position k of the log carries the scan of its file
CarriesScan(k) ==
    IF from_utf8(log[k].bts)
    THEN IsScanOf(log[k].recs, lines(log[k].bts), re)
    ELSE log[k].recs = <<>>

\* ff is called only for a regular file that was read, with its scan
ResultsAreOfReadFiles ==
    \A k \in 1..Len(log) :
        log[k].sink = "result" =>
            /\ CarriesScan(k)
            /\ \E c \in calls :
                  /\ c.path = log[k].path
                  /\ metadata(c.kind, c.nsym) = "file"
                  /\ Target(c.kind) # "unreadable"
                  /\ c.res = Ok

RootResult ==
    (Done /\ metadata(root, RootNsym) = "file" /\ Target(root) # "unreadable") =>
        Cardinality(ResultsAt(<<>>)) = 1

\* C3 as stated: when the walk has ended, every regular file listed in a
\* directory the walk opened, whose metadata and read succeed, has had ff
\* called exactly once with its path and its scan (empty or not), and ff is
\* never called for anything else.
EveryReadableFileReported ==
    /\ ResultsAreOfReadFiles
    /\ RootResult
    /\ \A d \in dirs : \A j \in DOMAIN d.listing :
          (Done /\ ReadableFile(d, j)) =>
              Cardinality(ResultsAt(Append(d.path, j))) = 1

\* C3 amended: the same for every such file that no failing item precedes in
\* the listing of its directory; a file listed after a failing item is not
\* visited.
EveryListedReadableFileReported ==
    /\ ResultsAreOfReadFiles
    /\ RootResult
    /\ \A d \in dirs : \A j \in DOMAIN d.listing :
          (Done /\ ReadableFile(d, j)) =>
              Cardinality(ResultsAt(Append(d.path, j))) =
                  (IF NoEntryErrBefore(d.listing, j) THEN 1 ELSE 0)

\* a file of a subdirectory was reported with an empty scan of valid text,
\* after a file of the root was reported
EveryListedReadableFileReportedReached ==
    /\ Done
    /\ \E a \in ResultsAt(<<1>>) : \E b \in ResultsAt(<<2, 1>>) :
          /\ a < b
          /\ from_utf8(log[b].bts)
          /\ log[b].recs = <<>>

(***************************************************************************)
(* C4.  A failing root.                                                    *)
(***************************************************************************)
\* the metadata of the root cannot be resolved, or the root is a regular
\* file that cannot be read
RootFails ==
    \/ metadata(root, RootNsym) = "err"
    \/ metadata(root, RootNsym) = "file" /\ Target(root) = "unreadable"

\* C4: when the root's metadata cannot be resolved, or the root is a regular
\* file that cannot be read, the walk returns that failure, as the only
\* thing it does, and neither ff nor ef is ever called.
FailingRootIsReturned ==
    RootFails =>
        /\ log = <<>>
        /\ Done =>
              /\ ret = Err(IF metadata(root, RootNsym) = "err"
                           THEN "metadata" ELSE "read", <<>>)
              /\ Cardinality(calls) = 1
              /\ dirs = {}

\* the walk of a root that is an unreadable regular file has returned
FailingRootIsReturnedReached ==
    Done /\ root = "unreadable" /\ ~ret.ok

(***************************************************************************)
(* C5.  The scan result of process_file (checked on the scan machine).     *)
(***************************************************************************)
\* C5: when process_file returns Ok for valid text, res is exactly the
\* sequence of (n, line n), n counted from zero, over the lines the pattern
\* matches, in file order, with no other line in it.
ScanIsTheMatchingLines ==
    (pcScan = "done" /\ out = "ok" /\ from_utf8(bts)) =>
        IsScanOf(res, lines(bts), re)

\* a scan has returned lines 0 and 2 and left out line 1 between them
ScanIsTheMatchingLinesReached ==
    /\ pcScan = "done" /\ out = "ok" /\ from_utf8(bts)
    /\ Len(lines(bts)) = 3
    /\ Len(res) = 2 /\ res[1].line = 0 /\ res[2].line = 2

(***************************************************************************)
(* C6.  Bytes that are not valid text.                                     *)
(***************************************************************************)
\* C6: a regular file that is read but whose bytes are not valid text gives
\* one call of ff with the empty sequence, its call returns Ok and no
\* failure of it is raised or handed to ef, whatever the pattern.
InvalidTextScansEmpty ==
    \A k \in 1..Len(log) :
        (log[k].sink = "result" /\ ~from_utf8(log[k].bts)) =>
            /\ log[k].recs = <<>>
            /\ Cardinality(ResultsAt(log[k].path)) = 1
            /\ \E c \in calls : c.path = log[k].path /\ c.res = Ok
            /\ \A r \in raised : r.path # log[k].path
            /\ \A e \in ErrorEvents : log[e].path # log[k].path

\* a file of a directory had invalid bytes, the walk has ended with Ok
InvalidTextScansEmptyReached ==
    /\ Done /\ ret = Ok
    /\ \E k \in ResultsAt(<<1>>) : ~from_utf8(log[k].bts) /\ log[k].recs = <<>>

(***************************************************************************)
(* C7.  Entries that are neither regular files nor directories.            *)
(***************************************************************************)
\* the call c did nothing: it returned Ok, no sink was called for its path
\* or below it, and it opened no directory
Skipped(c) ==
    /\ c.res = Ok
    /\ EventsUnder(c.path) = {}
    /\ \A d \in dirs : d.path # c.path

\* C7 as stated: the call on a device or socket, and the call on a symbolic
\* link whatever it points to, is skipped.
SymlinksAndSpecialsSkipped ==
    \A c \in calls : c.kind \in SymKinds \cup {"special"} => Skipped(c)

\* C7 amended: the call on a device or socket is skipped; a symbolic link is
\* treated as what it points to: a link to a regular file is scanned and ff
\* is called for the link's path, a link to a directory is opened and
\* walked, and a link to nothing, or a path with more links than the
\* platform follows, returns the metadata failure.
SpecialsSkippedSymlinksFollowed ==
    \A c \in calls :
        /\ c.kind = "special" /\ c.nsym <= MaxSymlinks => Skipped(c)
        /\ c.kind = "symfile" /\ c.nsym <= MaxSymlinks =>
              c.res = Ok /\ Cardinality(ResultsAt(c.path)) = 1
        /\ c.kind = "symdir" /\ c.nsym <= MaxSymlinks =>
              \E d \in dirs : d.path = c.path
        /\ c.kind = "symdangling" \/ c.nsym > MaxSymlinks =>
              c.res = Err("metadata", c.path)

\* a device, a link to a regular file and a link to a directory have all
\* been walked: the first did nothing, the second was scanned, the third
\* was opened
SpecialsSkippedSymlinksFollowedReached ==
    /\ Done
    /\ \E c \in calls : c.kind = "special" /\ Skipped(c)
    /\ \E c \in calls : c.kind = "symfile" /\ ResultsAt(c.path) # {}
    /\ \E c \in calls : c.kind = "symdir" /\ \E d \in dirs : d.path = c.path

(***************************************************************************)
(* C8.  Termination.                                                       *)
(***************************************************************************)
\* C8: every walk ends, with Ok or with a failure that arose at the root,
\* also when a directory holds a symbolic link back to itself.
WalkTerminates == <>(Done /\ ret # Pending /\ ret.path = <<>>)

\* a walk has ended after it followed a link from a directory to itself and
\* met the limit of the platform on the way down
WalkTerminatesReached ==
    /\ Done
    /\ \E d \in dirs : d.nsym >= 1
    /\ \E r \in raised : r.cause = "metadata" /\ Len(r.path) > MaxSymlinks

(***************************************************************************)
(* C9.  Depth-first order of the sink calls.                               *)
(***************************************************************************)
\* p lies at or below an entry listed before the entry that q lies at or
\* below, in the same directory
SiblingBefore(p, q) ==
    \E n \in 0..(Len(p) - 1) :
        /\ n < Len(q)
        /\ SubSeq(p, 1, n) = SubSeq(q, 1, n)
        /\ p[n + 1] < q[n + 1]

\* C9: of two entries of one directory, every sink call caused by the one
\* listed first, or by anything below it, comes before every sink call
\* caused by the other or by anything below it.
SinkCallsDepthFirst ==
    \A a \in 1..Len(log) : \A b \in 1..Len(log) :
        SiblingBefore(log[a].path, log[b].path) => a < b

\* two sink calls from below the first entry, then one for the second entry
SinkCallsDepthFirstReached ==
    /\ Done
    /\ Len(log) >= 3
    /\ Len(log[1].path) = 2 /\ log[1].path[1] = 1
    /\ Len(log[2].path) = 2 /\ log[2].path[1] = 1
    /\ log[3].path = <<2>>

(***************************************************************************)
(* C10.  Every failure is reported exactly once.                           *)
(***************************************************************************)
\* C10: a failure raised in a call below the root is handed to ef exactly
\* once, by the call of the parent directory, and is not what the walk
\* returns; a failure raised in the top-level call is what the walk returns
\* and is never handed to ef; ef is handed nothing else.
FailuresReportedOnce ==
    /\ \A r \in raised :
          IF r.path = <<>>
          THEN ReportsOf(r) = {} /\ (Done => ret = r)
          ELSE /\ Cardinality(ReportsOf(r)) = 1
               /\ \A k \in ReportsOf(r) : log[k].by = Parent(r.path)
               /\ ret # r
    /\ \A k \in ErrorEvents : log[k].err \in raised
    /\ (Done /\ ~ret.ok) => ret \in raised /\ ret.path = <<>>

\* two failures below the root, one of them two levels down, were reported
\* and the walk returned Ok
FailuresReportedOnceReached ==
    /\ Done /\ ret = Ok
    /\ Cardinality(raised) >= 2
    /\ \E r \in raised : Len(r.path) = 2

====
